---- MODULE Spec2Model ----
(***************************************************************************)
(* The polaroid lifecycle and shared-room synchronisation of the retro     *)
(* camera application: the App component with rooms, video mode and        *)
(* cursors (src/unnamed/part_001, lines 398-1295), the Polaroid card it    *)
(* renders (src/unnamed/part_003, lines 43-257) and the photos table       *)
(* (src/unnamed/part_002).  The load-and-subscribe effect is also modelled   *)
(* as src/App.tsx has it, without the ignore flag.                         *)
(*                                                                         *)
(* One client is modelled in full.  The remote store (table rows, the      *)
(* change feed, the answers to fetches and inserts) and the other clients  *)
(* of a room are the environment.  Every event handler, timer callback and *)
(* promise continuation is one action; a handler reads the state of the    *)
(* render it was created in, so a callback that outlives its render        *)
(* carries a snapshot of what it closed over.                              *)
(***************************************************************************)
EXTENDS Integers, Sequences, FiniteSets, TLC

(* ------------------------------ bounds -------------------------------- *)
\* capture identifiers in use at one time (crypto.randomUUID is fresh; an
\* identifier is given out again only once nothing refers to it any more)
MaxIds == 2
\* SpecFilm: stack orders up to InitialMaxZ + FilmZSteps, cards in the store
FilmZSteps == 16
FilmPhotos == 1
\* room warnings whose 2000 ms timer is still to fire
WarnTimers == 1
\* SpecSync: rows of the table, runs of the effect, stack orders, cards
SyncRows == 1
SyncGen == 1
SyncZSteps == 1
\* SpecApp: rows of the table, runs of the effect, stack orders
AppRows == 1
AppGen == 2
AppZSteps == 1
\* SpecJoin: rows of the table, stack orders
JoinRows == 2
JoinZSteps == 1
\* SpecKeepOne: rows, insert calls awaiting their response, stack orders,
\* cards, photos taken
OneRows == 1
OneInflight == 1
OneZSteps == 2
OnePhotos == 1
OneShots == 1
\* SpecLoad: rows of the table (more than FetchLimit), runs of the effect
LoadRows == 52
LoadGen == 1
\* SpecKeep: rows, insert calls awaiting their response, stack orders, cards
KeepRows == 2
KeepInflight == 2
KeepZSteps == 4
KeepPhotos == 2
KeepShots == 2
\* recordings: one Keep, one card in the store
ReelZSteps == 2
ReelPhotos == 1
\* Reset on a client that has a card, a capture and a pointer to show
WipeRows == 1
WipeGen == 1
WipeCasts == 1
WipeShots == 1
\* captions: one Keep, one card in the store
AiZSteps == 2
AiPhotos == 1
\* focus: cards of other clients in the store of this client
TopRows == 2
TopGen == 1
TopZSteps == 4
\* presence: the clock of the model, effect runs, broadcasts on their way
MaxNow == 3000
PresGen == 2
PresCasts == 1
\* the film roll with every room key, the power switch and reload at any moment
RollZSteps == 2
RollPhotos == 1
RollWarns == 2
RollReloads == 2
\* pointer broadcasts: effect runs
CastGen == 3
\* the shutter on any device: stack orders, cards in the store
ShutterZSteps == 2
ShutterPhotos == 1
GuestGen == 2
GuestZSteps == 3
GuestPhotos == 2
\* two pointers on the pending card: stack orders, cards in the store
TouchZSteps == 4
TouchPhotos == 2
\* development: rows of the table, effect runs, stack orders, cards in the
\* store, insert calls on their way, captures
SettleRows == 1
SettleGen == 1
SettleZSteps == 2
SettlePhotos == 2
SettleInflight == 1
SettleShots == 1
\* placement: rows, insert calls on their way, stack orders, cards, captures
PlaceRows == 1
PlaceInflight == 1
PlaceZSteps == 3
PlacePhotos == 1
PlaceShots == 1

(* ------------------------- program constants -------------------------- *)
Capacity == 8
InitialMaxZ == 30
FetchLimit == 50
InnerWidth == 1000
InnerHeight == 500

Rooms == {"", "r1", "r2"}
GlobalRoom == "global"
\* a room key of white space only
Blank == " "
NoUser == "none"
Users == {"u1"}
NoPhoto == [id |-> 0]
NoShot == [kind |-> "none"]
NoDrag == [target |-> "none"]
NoCaption == "undefined"
CustomText == "May I meet you"
AiCaption == "ai caption"
RowIdBase == 100
\* drop points of the pending card, in pixels of the viewport
Dests == {<<120, 340>>}
\* drop points of a drag that ends anywhere: inside the viewport, on its
\* corners, and left of, above, right of and below it
DragDests == {<<120, 340>>, <<0, 0>>, <<1000, 500>>, <<-100, 340>>, <<120, -20>>,
              <<1100, 340>>, <<120, 600>>}
\* viewports of other clients, width and height in pixels
Viewports == {<<2000, 1000>>, <<500, 250>>}
\* Math.random() * 10 - 5, as whole degrees
Rotations == {4}
\* stack orders and pixel placements of rows written by other clients
OtherZ == {29}
\* the accounts that move a pointer in a room; this client signs in as either
Peers == {"u1", "u2"}
\* pointer positions, as fractions of the viewport in percent
Spots == {<<10, 20>>, <<30, 40>>}
\* now - cursor.lastUpdate > 2000
StaleAfter == 2000
\* the time between two steps of the model, in ms
Elapsed == {500}
\* throttle(..., 100) of handleMouseMove
ThrottleLimit == 100
\* a throttle that lets the next call through
NoThrottle == [inThrottle |-> FALSE, left |-> 0]
\* the time between two pointer events, in ms
MoveEvery == {50}

VARIABLES
    user, room,                 \* useState user, room
    isPoweredOn, stream, cameraReq,
    mode, isAiEnabled,
    isCapturing, isRecording,
    shotsLeft, isReloading,
    pendingPhoto, photos, maxZIndex,
    warningMsg, warnTimers,
    shot,                       \* the 4000 ms eject timer or the recorder of an accepted capture
    flagsTimer, ejectTimer,     \* the 500 ms and 3000 ms timers of ejectMedia
    captionCalls,               \* generateCaption promises not yet settled
    settleTimers,               \* 5200 ms timers, by card id
    drag,                       \* the gesture on the pending card, with the render it closed over
    gen, effect,                \* effect runs so far; the run whose ignore flag is still false (0: none)
    subscribed,                 \* the live channel has been joined on the server
    fetches, events, rows, keeps,
    alerts,                     \* alert() calls so far
    lastOp, lastArg,            \* the handler or callback that ran last, and what it ran for
    issued, issuedBefore,       \* the stack order given out last, and the highest given out before it
    cursors,                    \* the presence map: an entry per user id
    casts,                      \* CURSOR broadcasts on their way to a handler of this client
    now,                        \* Date.now()
    reloadTimers,               \* 2000 ms timers of handleReload not yet fired
    gemini,                     \* GEMINI_API_KEY of the build, and how the last generateCaption call settled
    throttle,                   \* inThrottle of the throttled handleMouseMove, and the ms left of its timer
    sinceCast                   \* ms since the last CURSOR broadcast of this client, up to ThrottleLimit

vars == <<user, room, isPoweredOn, stream, cameraReq, mode, isAiEnabled,
          isCapturing, isRecording, shotsLeft, isReloading, pendingPhoto,
          photos, maxZIndex, warningMsg, warnTimers, shot, flagsTimer,
          ejectTimer, captionCalls, settleTimers, drag, gen, effect,
          subscribed, fetches, events, rows, keeps, alerts, lastOp, lastArg,
          issued, issuedBefore, cursors, casts, now, reloadTimers, gemini,
          throttle, sinceCast>>

(* ------------------------------ helpers ------------------------------- *)
Range(s) == {s[i] : i \in 1..Len(s)}

\* the least element, where Math.max is called for
MinOf(S) == CHOOSE m \in S : \A n \in S : m <= n

MaxOf(S) == CHOOSE m \in S : \A n \in S : n <= m

Ids(ps) == {ps[i].id : i \in 1..Len(ps)}

\* data URL of a capture: its media type and the capture it was taken from
DataUrl(type, n) == [media |-> type, n |-> n]

\* a room key taken as typed
NoTrim(r) == r

\* String.prototype.trim on the room keys of the model
Trim(r) == IF r = " " THEN "" ELSE r

\* identifiers something still refers to
InUse ==
    {pendingPhoto.id} \cup Ids(photos) \cup captionCalls \cup settleTimers
    \cup {keeps[i].id : i \in 1..Len(keeps)}
    \cup {rows[i].data_url.n : i \in 1..Len(rows)}
    \cup (IF drag.target = "none" THEN {} ELSE {drag.id})

FreeIds == (1..MaxIds) \ InUse

\* crypto.randomUUID()
RandomUUID == CHOOSE i \in FreeIds : \A j \in FreeIds : i <= j

\* arr.map(p => p.id === id ? f(p) : p)
RECURSIVE MapById(_, _, _, _)
MapById(ps, id, field, value) ==
    IF ps = <<>> THEN <<>>
    ELSE LET p == Head(ps)
             q == IF p.id = id THEN [p EXCEPT ![field] = value] ELSE p
         IN <<q>> \o MapById(Tail(ps), id, field, value)

\* useState<Record<string, any>>({})
NoCursors == [u \in {} |-> 0]

\* no generateCaption call has settled
NoResult == [status |-> "none"]

\* the state after construction, with the initial value of useState(room), in
\* a build whose process.env.API_KEY is k
InitBuild(r, k) ==
    /\ gemini = [key |-> k, last |-> NoResult]
    /\ user = NoUser
    /\ room = r
    /\ isPoweredOn = FALSE
    /\ stream = FALSE
    /\ cameraReq = FALSE
    /\ mode = "photo"
    /\ isAiEnabled = TRUE
    /\ isCapturing = FALSE
    /\ isRecording = FALSE
    /\ shotsLeft = Capacity
    /\ isReloading = FALSE
    /\ reloadTimers = 0
    /\ pendingPhoto = NoPhoto
    /\ photos = <<>>
    /\ maxZIndex = InitialMaxZ
    /\ warningMsg = FALSE
    /\ warnTimers = 0
    /\ shot = NoShot
    /\ flagsTimer = FALSE
    /\ ejectTimer = FALSE
    /\ captionCalls = {}
    /\ settleTimers = {}
    /\ drag = NoDrag
    /\ gen = 0
    /\ effect = 0
    /\ subscribed = FALSE
    /\ fetches = {}
    /\ events = {}
    /\ rows = <<>>
    /\ keeps = <<>>
    /\ alerts = 0
    /\ lastOp = "init"
    /\ lastArg = 0
    /\ issued = 0
    /\ issuedBefore = 0
    /\ cursors = NoCursors
    /\ casts = {}
    /\ now = 0
    /\ throttle = NoThrottle
    /\ sinceCast = ThrottleLimit

\* the state after construction in a build with a credential
InitRoom(r) == InitBuild(r, "key")

Init == InitRoom("")

authV == <<user, room>>
camV == <<isPoweredOn, stream, cameraReq>>
setV == <<mode, isAiEnabled>>
capV == <<isCapturing, isRecording, shot, flagsTimer, ejectTimer>>
filmV == <<shotsLeft, isReloading, reloadTimers>>
warnV == <<warningMsg, warnTimers>>
slotV == <<pendingPhoto, captionCalls, drag>>
storeV == <<photos, settleTimers>>
zV == <<maxZIndex, issued, issuedBefore>>
syncV == <<gen, effect, subscribed, fetches, events>>
dbV == <<rows, keeps, alerts>>
presV == <<cursors, casts, now, throttle, sinceCast>>

(* ------------------------- camera and settings ------------------------ *)
\* the lens onClick, and the camera effect that follows the power switch
PowerToggle ==
    /\ isPoweredOn' = ~isPoweredOn
    /\ IF isPoweredOn
          THEN stream' = FALSE /\ cameraReq' = FALSE
          ELSE cameraReq' = TRUE /\ UNCHANGED stream
    /\ lastOp' = "power" /\ lastArg' = 0
    /\ UNCHANGED gemini
    /\ UNCHANGED presV
    /\ UNCHANGED <<authV, setV, capV, filmV, warnV, slotV, storeV, zV, syncV, dbV>>

\* getUserMedia settles while the effect that asked is still mounted
CameraResolve(granted) ==
    /\ cameraReq
    /\ cameraReq' = FALSE
    /\ stream' = granted
    /\ lastOp' = "camera" /\ lastArg' = 0
    /\ UNCHANGED gemini
    /\ UNCHANGED presV
    /\ UNCHANGED <<isPoweredOn, authV, setV, capV, filmV, warnV, slotV, storeV, zV, syncV, dbV>>

ToggleMode ==
    /\ mode' = (IF mode = "photo" THEN "video" ELSE "photo")
    /\ lastOp' = "mode" /\ lastArg' = 0
    /\ UNCHANGED gemini
    /\ UNCHANGED presV
    /\ UNCHANGED <<isAiEnabled, authV, camV, capV, filmV, warnV, slotV, storeV, zV, syncV, dbV>>

ToggleAi ==
    /\ isAiEnabled' = ~isAiEnabled
    /\ lastOp' = "ai" /\ lastArg' = 0
    /\ UNCHANGED gemini
    /\ UNCHANGED presV
    /\ UNCHANGED <<mode, authV, camV, capV, filmV, warnV, slotV, storeV, zV, syncV, dbV>>

(* ------------------------------ capture ------------------------------- *)
\* takePhoto after its first guard, with a recorder that uses up a frame of film
TakePhotoVideoCounted ==
    IF Trim(room) = ""
       THEN /\ warningMsg' = TRUE
            /\ warnTimers' = warnTimers + 1
            /\ UNCHANGED <<capV, filmV>>
    ELSE IF shotsLeft <= 0 \/ isReloading \/ ~isPoweredOn
       THEN UNCHANGED <<capV, filmV, warnV>>
    ELSE IF isCapturing \/ isRecording
       THEN UNCHANGED <<capV, filmV, warnV>>
    ELSE IF ~stream
       THEN UNCHANGED <<capV, filmV, warnV>>
    ELSE /\ IF mode = "video" THEN isRecording' = TRUE /\ UNCHANGED isCapturing
                              ELSE isCapturing' = TRUE /\ UNCHANGED isRecording
         /\ shotsLeft' = shotsLeft - 1
         /\ shot' = [kind |-> mode, ai |-> isAiEnabled]
         /\ UNCHANGED <<flagsTimer, ejectTimer, isReloading, reloadTimers, warnV>>

\* takePhoto after its first guard, without the test of the film count
TakePhotoUngoverned ==
    IF Trim(room) = ""
       THEN /\ warningMsg' = TRUE
            /\ warnTimers' = warnTimers + 1
            /\ UNCHANGED <<capV, filmV>>
    ELSE IF isReloading \/ ~isPoweredOn
       THEN UNCHANGED <<capV, filmV, warnV>>
    ELSE IF isCapturing \/ isRecording
       THEN UNCHANGED <<capV, filmV, warnV>>
    ELSE IF ~stream
       THEN UNCHANGED <<capV, filmV, warnV>>
    ELSE IF mode = "video"
       THEN /\ isRecording' = TRUE
            /\ shot' = [kind |-> "video", ai |-> isAiEnabled]
            /\ UNCHANGED <<isCapturing, flagsTimer, ejectTimer, filmV, warnV>>
    ELSE /\ isCapturing' = TRUE
         /\ shotsLeft' = shotsLeft - 1
         /\ shot' = [kind |-> "photo", ai |-> isAiEnabled]
         /\ UNCHANGED <<isRecording, flagsTimer, ejectTimer, isReloading, reloadTimers, warnV>>

\* takePhoto after its first guard: room validation, the governor, the camera,
\* then the recorder of a video or the shutter of a photo.  recorder: new
\* MediaRecorder(stream, { mimeType: 'video/webm;codecs=vp8' }) returns (it
\* throws where the type is not supported); ctx: getContext('2d') gives a
\* context (it may give null); without them the call ends after the flag and
\* the film count were set and nothing is left to eject
TakePhotoOn(recorder, ctx) ==
    IF Trim(room) = ""
       THEN /\ warningMsg' = TRUE
            /\ warnTimers' = warnTimers + 1
            /\ UNCHANGED <<capV, filmV>>
    ELSE IF shotsLeft <= 0 \/ isReloading \/ ~isPoweredOn
       THEN UNCHANGED <<capV, filmV, warnV>>
    ELSE IF isCapturing \/ isRecording
       THEN UNCHANGED <<capV, filmV, warnV>>
    ELSE IF ~stream
       THEN UNCHANGED <<capV, filmV, warnV>>
    ELSE IF mode = "video"
       THEN /\ isRecording' = TRUE
            /\ shot' = IF recorder THEN [kind |-> "video", ai |-> isAiEnabled] ELSE NoShot
            /\ UNCHANGED <<isCapturing, flagsTimer, ejectTimer, filmV, warnV>>
    ELSE /\ isCapturing' = TRUE
         /\ shotsLeft' = shotsLeft - 1
         /\ shot' = IF ctx THEN [kind |-> "photo", ai |-> isAiEnabled] ELSE NoShot
         /\ UNCHANGED <<isRecording, flagsTimer, ejectTimer, isReloading, reloadTimers, warnV>>

\* takePhoto after its first guard where the recorder and the canvas work
TakePhotoChecked == TakePhotoOn(TRUE, TRUE)

\* takePhoto without its first guard
TakePhotoSlotUnchecked ==
    /\ lastOp' = "takePhoto" /\ lastArg' = 0
    /\ UNCHANGED gemini
    /\ UNCHANGED presV
    /\ TakePhotoChecked
    /\ UNCHANGED <<authV, camV, setV, slotV, storeV, zV, syncV, dbV>>

\* takePhoto: what the shutter button calls
TakePhoto ==
    /\ lastOp' = "takePhoto" /\ lastArg' = 0
    /\ UNCHANGED gemini
    /\ UNCHANGED presV
    /\ IF pendingPhoto # NoPhoto
          THEN UNCHANGED <<capV, filmV, warnV>>
          ELSE TakePhotoChecked
    /\ UNCHANGED <<authV, camV, setV, slotV, storeV, zV, syncV, dbV>>

\* takePhoto on a device whose recorder and canvas may fail
TakePhotoDevice(recorder, ctx) ==
    /\ lastOp' = "takePhoto" /\ lastArg' = 0
    /\ UNCHANGED gemini
    /\ UNCHANGED presV
    /\ IF pendingPhoto # NoPhoto
          THEN UNCHANGED <<capV, filmV, warnV>>
          ELSE TakePhotoOn(recorder, ctx)
    /\ UNCHANGED <<authV, camV, setV, slotV, storeV, zV, syncV, dbV>>

\* the photo a capture puts into the pending slot
NewPhoto(type, ai) ==
    [id |-> RandomUUID,
     dataUrl |-> DataUrl(type, RandomUUID),
     caption |-> IF ai THEN NoCaption ELSE CustomText,
     isEjecting |-> TRUE,
     mediaType |-> type]

\* ejectMedia asking for a caption whatever the kind of the capture
EjectMediaCaptioned ==
    /\ shot # NoShot
    /\ ~ejectTimer
    /\ FreeIds # {}
    /\ pendingPhoto' = NewPhoto(shot.kind, shot.ai)
    /\ captionCalls' = IF shot.ai THEN captionCalls \cup {RandomUUID} ELSE captionCalls
    /\ shot' = NoShot
    /\ flagsTimer' = TRUE
    /\ ejectTimer' = TRUE
    /\ lastOp' = "eject" /\ lastArg' = 0
    /\ UNCHANGED gemini
    /\ UNCHANGED presV
    /\ UNCHANGED <<isCapturing, isRecording, drag, authV, camV, setV, filmV, warnV, storeV, zV, syncV, dbV>>

\* ejectMedia, called by the 4000 ms timer of a photo or by the recorder's onstop
\* 3000 ms after the capture was accepted; a capture is accepted only once the
\* 500 ms timer of the previous ejection has fired, so the 3000 ms timer of that
\* ejection fires before this call
EjectMedia ==
    /\ shot # NoShot
    /\ ~ejectTimer
    /\ FreeIds # {}
    /\ pendingPhoto' = NewPhoto(shot.kind, shot.ai)
    /\ captionCalls' = IF shot.ai /\ shot.kind = "photo"
                          THEN captionCalls \cup {RandomUUID}
                          ELSE captionCalls
    /\ shot' = NoShot
    /\ flagsTimer' = TRUE
    /\ ejectTimer' = TRUE
    /\ lastOp' = "eject" /\ lastArg' = 0
    /\ UNCHANGED gemini
    /\ UNCHANGED presV
    /\ UNCHANGED <<isCapturing, isRecording, drag, authV, camV, setV, filmV, warnV, storeV, zV, syncV, dbV>>

\* the 500 ms timer of ejectMedia
FlagsTimer ==
    /\ flagsTimer
    /\ flagsTimer' = FALSE
    /\ isCapturing' = FALSE
    /\ isRecording' = FALSE
    /\ lastOp' = "flagsTimer" /\ lastArg' = 0
    /\ UNCHANGED gemini
    /\ UNCHANGED presV
    /\ UNCHANGED <<shot, ejectTimer, authV, camV, setV, filmV, warnV, slotV, storeV, zV, syncV, dbV>>

\* the 3000 ms timer of ejectMedia; it was set with the 500 ms one and fires after it
EjectTimer ==
    /\ ejectTimer
    /\ ~flagsTimer
    /\ ejectTimer' = FALSE
    /\ pendingPhoto' = IF pendingPhoto # NoPhoto
                          THEN [pendingPhoto EXCEPT !.isEjecting = FALSE]
                          ELSE NoPhoto
    /\ lastOp' = "ejectTimer" /\ lastArg' = 0
    /\ UNCHANGED gemini
    /\ UNCHANGED presV
    /\ UNCHANGED <<isCapturing, isRecording, shot, flagsTimer, captionCalls, drag,
                   authV, camV, setV, filmV, warnV, storeV, zV, syncV, dbV>>

\* a continuation that writes the caption on whatever the slot holds
CaptionThenPositional(id, caption) ==
    /\ id \in captionCalls
    /\ captionCalls' = captionCalls \ {id}
    /\ pendingPhoto' = IF pendingPhoto # NoPhoto
                          THEN [pendingPhoto EXCEPT !.caption = caption]
                          ELSE pendingPhoto
    /\ lastOp' = "caption" /\ lastArg' = id
    /\ UNCHANGED presV
    /\ UNCHANGED <<drag, authV, camV, setV, capV, filmV, warnV, storeV, zV, syncV, dbV>>

\* the continuation of generateCaption(url).then(...)
CaptionThen(id, caption) ==
    /\ id \in captionCalls
    /\ captionCalls' = captionCalls \ {id}
    /\ pendingPhoto' = IF pendingPhoto # NoPhoto /\ pendingPhoto.id = id
                          THEN [pendingPhoto EXCEPT !.caption = caption]
                          ELSE pendingPhoto
    /\ lastOp' = "caption" /\ lastArg' = id
    /\ UNCHANGED presV
    /\ UNCHANGED <<drag, authV, camV, setV, capV, filmV, warnV, storeV, zV, syncV, dbV>>

\* a caption arrives from the service
CaptionArrive(id, caption) ==
    /\ CaptionThen(id, caption)
    /\ UNCHANGED gemini

\* what ai.models.generateContent can do: throw or reject, or answer with a
\* response whose text is undefined, empty, white space or a caption
NoText == "undefined text"
Replies ==
    {[kind |-> "throws"]} \cup
    {[kind |-> "response", text |-> t] : t \in {NoText, "", " ", AiCaption}}

NoKeyFallback == "Memories captured in time..."
EmptyFallback == "A beautiful moment."
FailedFallback == "Captured moment #84"

\* generateCaption without its try and catch
GenerateCaptionUncaught(key, reply) ==
    IF key = ""
       THEN [status |-> "resolved", value |-> NoKeyFallback, remote |-> FALSE]
    ELSE IF reply.kind = "throws" \/ reply.text = NoText
       THEN [status |-> "rejected", value |-> NoText, remote |-> TRUE]
    ELSE [status |-> "resolved", remote |-> TRUE,
          value |-> IF Trim(reply.text) = "" THEN EmptyFallback ELSE Trim(reply.text)]

\* generateCaption: how the promise settles, with what, and whether the
\* service was called
GenerateCaption(key, reply) ==
    IF key = ""
       THEN [status |-> "resolved", value |-> NoKeyFallback, remote |-> FALSE]
    ELSE IF reply.kind = "throws" \/ reply.text = NoText
       THEN [status |-> "resolved", value |-> FailedFallback, remote |-> TRUE]
    ELSE [status |-> "resolved", remote |-> TRUE,
          value |-> IF Trim(reply.text) = "" THEN EmptyFallback ELSE Trim(reply.text)]

\* a generateCaption promise settles: .then runs its continuation when the
\* promise is resolved and nothing when it is rejected
CaptionSettle(id, reply) ==
    LET r == GenerateCaption(gemini.key, reply)
    IN /\ gemini' = [key |-> gemini.key,
                     last |-> [reply |-> reply, status |-> r.status, value |-> r.value,
                               remote |-> r.remote]]
       /\ IF r.status = "resolved"
             THEN CaptionThen(id, r.value)
             ELSE /\ id \in captionCalls
                  /\ captionCalls' = captionCalls \ {id}
                  /\ lastOp' = "captionRejected" /\ lastArg' = id
                  /\ UNCHANGED presV
                  /\ UNCHANGED <<pendingPhoto, drag, authV, camV, setV, capV, filmV, warnV,
                                 storeV, zV, syncV, dbV>>

\* the 2000 ms timer of the room warning
WarnTimer ==
    /\ warnTimers > 0
    /\ warnTimers' = warnTimers - 1
    /\ warningMsg' = FALSE
    /\ lastOp' = "warnTimer" /\ lastArg' = 0
    /\ UNCHANGED gemini
    /\ UNCHANGED presV
    /\ UNCHANGED <<authV, camV, setV, capV, filmV, slotV, storeV, zV, syncV, dbV>>

(* --------------------------- film governor ---------------------------- *)
\* handleReload without its guard: every call starts a timer
HandleReloadUnguarded ==
    /\ lastOp' = "reload" /\ lastArg' = reloadTimers
    /\ UNCHANGED gemini
    /\ UNCHANGED presV
    /\ isReloading' = TRUE
    /\ reloadTimers' = reloadTimers + 1
    /\ UNCHANGED <<shotsLeft, authV, camV, setV, capV, warnV, slotV, storeV, zV, syncV, dbV>>

HandleReload ==
    /\ lastOp' = "reload" /\ lastArg' = reloadTimers
    /\ UNCHANGED gemini
    /\ UNCHANGED presV
    /\ IF isReloading
          THEN UNCHANGED <<isReloading, reloadTimers>>
          ELSE /\ isReloading' = TRUE
               /\ reloadTimers' = reloadTimers + 1
    /\ UNCHANGED <<shotsLeft, authV, camV, setV, capV, warnV, slotV, storeV, zV, syncV, dbV>>

\* a reload that leaves the counter one short
ReloadTimerShort ==
    /\ reloadTimers > 0
    /\ reloadTimers' = reloadTimers - 1
    /\ shotsLeft' = Capacity - 1
    /\ isReloading' = FALSE
    /\ lastOp' = "reloadTimer" /\ lastArg' = 0
    /\ UNCHANGED gemini
    /\ UNCHANGED presV
    /\ UNCHANGED <<authV, camV, setV, capV, warnV, slotV, storeV, zV, syncV, dbV>>

\* the 2000 ms timer of handleReload
ReloadTimer ==
    /\ reloadTimers > 0
    /\ reloadTimers' = reloadTimers - 1
    /\ shotsLeft' = Capacity
    /\ isReloading' = FALSE
    /\ lastOp' = "reloadTimer" /\ lastArg' = 0
    /\ UNCHANGED gemini
    /\ UNCHANGED presV
    /\ UNCHANGED <<authV, camV, setV, capV, warnV, slotV, storeV, zV, syncV, dbV>>

(* ------------------------- cards and gestures ------------------------- *)
\* bookkeeping: v is the stack order just given to a card or to an insert request
Issue(v) ==
    /\ issued' = v
    /\ issuedBefore' = IF issued > issuedBefore THEN issued ELSE issuedBefore

\* bringToFront(id), in the render it is called from
BringToFront(id) ==
    LET newZ == maxZIndex + 1 IN
    /\ maxZIndex' = newZ
    /\ photos' = MapById(photos, id, "zIndex", newZ)
    /\ pendingPhoto' = IF pendingPhoto # NoPhoto /\ pendingPhoto.id = id
                          THEN [pendingPhoto EXCEPT !.isEjecting = FALSE]
                          ELSE pendingPhoto
    /\ IF id \in Ids(photos) THEN Issue(newZ) ELSE UNCHANGED <<issued, issuedBefore>>

\* Polaroid.handleStart on a card of the store (its onDragEnd does nothing)
FocusCard(id) ==
    /\ id \in Ids(photos)
    /\ BringToFront(id)
    /\ lastOp' = "bringToFront" /\ lastArg' = 0
    /\ UNCHANGED gemini
    /\ UNCHANGED presV
    /\ UNCHANGED <<captionCalls, drag, settleTimers, authV, camV, setV, capV, filmV, warnV, syncV, dbV>>

\* Polaroid.handleStart on the pending card: onFocus, then the window listeners
\* are registered with the onDragEnd of this render
PointerDown ==
    /\ pendingPhoto # NoPhoto
    /\ ~pendingPhoto.isEjecting
    /\ drag = NoDrag
    /\ drag' = [target |-> "pending", id |-> pendingPhoto.id,
                pendingPhoto |-> pendingPhoto, maxZIndex |-> maxZIndex,
                user |-> user, room |-> room]
    /\ BringToFront(pendingPhoto.id)
    /\ lastOp' = "pointerDown" /\ lastArg' = 0
    /\ UNCHANGED gemini
    /\ UNCHANGED presV
    /\ UNCHANGED <<captionCalls, settleTimers, authV, camV, setV, capV, filmV, warnV, syncV, dbV>>

\* Polaroid.handleStart on the pending card while a gesture on it is on (a
\* second finger, a second mouse button): onFocus, and listenersRef now points
\* to the new listeners, so that handleWindowUp of the first pointer-down,
\* which runs first, removes those and is never removed itself
PointerDownAgain ==
    /\ pendingPhoto # NoPhoto
    /\ ~pendingPhoto.isEjecting
    /\ drag # NoDrag
    /\ drag.target = "pending"
    /\ drag' = [drag EXCEPT !.target = "leaked"]
    /\ BringToFront(pendingPhoto.id)
    /\ lastOp' = "pointerDownAgain" /\ lastArg' = 0
    /\ UNCHANGED gemini
    /\ UNCHANGED presV
    /\ UNCHANGED <<captionCalls, settleTimers, authV, camV, setV, capV, filmV, warnV, syncV, dbV>>

\* the card an unauthenticated Keep appends to the store
FinalPhoto(p, x, y, rotation, zIndex) ==
    [id |-> p.id, dataUrl |-> p.dataUrl, caption |-> p.caption,
     x |-> x, y |-> y, rotation |-> rotation, zIndex |-> zIndex,
     isDeveloping |-> TRUE, mediaType |-> p.mediaType]

\* the insert request of an authenticated Keep
InsertCall(p, r, x, y, rotation, zIndex) ==
    [id |-> p.id, room_id |-> r, data_url |-> p.dataUrl, caption |-> p.caption,
     x |-> [num |-> x, den |-> InnerWidth], y |-> [num |-> y, den |-> InnerHeight],
     rotation |-> rotation, z_index |-> zIndex,
     auth |-> (user # NoUser), st |-> "sent"]

\* handlePendingDragEnd(id, x, y) up to its await, as the render c closed over
\* sees the state (c.pendingPhoto, c.maxZIndex, c.user, c.room)
HandlePendingDragEnd(c, id, x, y, rotation) ==
    IF c.pendingPhoto = NoPhoto \/ c.pendingPhoto.id # id
       THEN UNCHANGED <<pendingPhoto, storeV, zV, keeps>>
    ELSE LET zIndex == c.maxZIndex + 1 IN
         IF c.user # NoUser
            THEN /\ keeps' = Append(keeps, InsertCall(c.pendingPhoto, c.room, x, y, rotation, zIndex))
                 /\ Issue(zIndex)
                 /\ UNCHANGED <<pendingPhoto, storeV, maxZIndex>>
            ELSE /\ photos' = Append(photos, FinalPhoto(c.pendingPhoto, x, y, rotation, zIndex))
                 /\ settleTimers' = settleTimers \cup {id}
                 /\ Issue(zIndex)
                 /\ maxZIndex' = maxZIndex + 1
                 /\ pendingPhoto' = NoPhoto
                 /\ UNCHANGED keeps

\* handleWindowUp of the gesture on the pending card.  It removes the
\* listeners listenersRef points to: its own, or the ones of a later
\* pointer-down, and then it stays on the window
PointerUp(dest, rotation) ==
    /\ drag # NoDrag
    /\ HandlePendingDragEnd(drag, drag.id, dest[1], dest[2], rotation)
    /\ drag' = IF drag.target = "leaked" THEN drag ELSE NoDrag
    /\ lastOp' = "keep" /\ lastArg' = drag.id
    /\ UNCHANGED gemini
    /\ UNCHANGED presV
    /\ UNCHANGED <<captionCalls, rows, alerts, authV, camV, setV, capV, filmV, warnV, syncV>>

\* a continuation that leaves the slot as it is when the insert has failed
KeepResumeRollback(i) ==
    /\ i \in 1..Len(keeps)
    /\ keeps[i].st \in {"ok", "error"}
    /\ alerts' = IF keeps[i].st = "error" THEN alerts + 1 ELSE alerts
    /\ maxZIndex' = maxZIndex + 1
    /\ pendingPhoto' = IF keeps[i].st = "error" THEN pendingPhoto ELSE NoPhoto
    /\ keeps' = SubSeq(keeps, 1, i - 1) \o SubSeq(keeps, i + 1, Len(keeps))
    /\ lastOp' = "keepResume" /\ lastArg' = keeps[i].id
    /\ UNCHANGED gemini
    /\ UNCHANGED presV
    /\ UNCHANGED <<captionCalls, drag, rows, issued, issuedBefore, storeV, authV, camV, setV, capV, filmV, warnV, syncV>>

\* the rest of handlePendingDragEnd, after the await of the insert
KeepResume(i) ==
    /\ i \in 1..Len(keeps)
    /\ keeps[i].st \in {"ok", "error"}
    /\ alerts' = IF keeps[i].st = "error" THEN alerts + 1 ELSE alerts
    /\ maxZIndex' = maxZIndex + 1
    /\ pendingPhoto' = NoPhoto
    /\ keeps' = SubSeq(keeps, 1, i - 1) \o SubSeq(keeps, i + 1, Len(keeps))
    /\ lastOp' = "keepResume" /\ lastArg' = keeps[i].id
    /\ UNCHANGED gemini
    /\ UNCHANGED presV
    /\ UNCHANGED <<captionCalls, drag, rows, issued, issuedBefore, storeV, authV, camV, setV, capV, filmV, warnV, syncV>>

\* a timer that fires and settles nothing
SettleTimerLost(id) ==
    /\ id \in settleTimers
    /\ settleTimers' = settleTimers \ {id}
    /\ lastOp' = "settleTimer" /\ lastArg' = 0
    /\ UNCHANGED gemini
    /\ UNCHANGED presV
    /\ UNCHANGED <<photos, authV, camV, setV, capV, filmV, warnV, slotV, zV, syncV, dbV>>

\* the 5200 ms timer of a card that entered the store as developing
SettleTimer(id) ==
    /\ id \in settleTimers
    /\ settleTimers' = settleTimers \ {id}
    /\ photos' = MapById(photos, id, "isDeveloping", FALSE)
    /\ lastOp' = "settleTimer" /\ lastArg' = 0
    /\ UNCHANGED gemini
    /\ UNCHANGED presV
    /\ UNCHANGED <<authV, camV, setV, capV, filmV, warnV, slotV, zV, syncV, dbV>>

\* a Reset that also throws away the capture in the slot and the pointers
ResetAll ==
    /\ photos' = <<>>
    /\ pendingPhoto' = NoPhoto
    /\ cursors' = NoCursors
    /\ lastOp' = "reset" /\ lastArg' = 0
    /\ UNCHANGED gemini
    /\ UNCHANGED <<casts, now, throttle, sinceCast, captionCalls, drag>>
    /\ UNCHANGED <<settleTimers, authV, camV, setV, capV, filmV, warnV, zV, syncV, dbV>>

\* the Reset button
Reset ==
    /\ photos' = <<>>
    /\ lastOp' = "reset" /\ lastArg' = 0
    /\ UNCHANGED gemini
    /\ UNCHANGED presV
    /\ UNCHANGED <<settleTimers, authV, camV, setV, capV, filmV, warnV, slotV, zV, syncV, dbV>>

(* --------------------------- remote store ----------------------------- *)
\* a row of the photos table; created_at is its position in rows
Row(id, c) ==
    [id |-> id, room_id |-> c.room_id, data_url |-> c.data_url, caption |-> c.caption,
     x |-> c.x, y |-> c.y, rotation |-> c.rotation, z_index |-> c.z_index]

\* id uuid default gen_random_uuid()
NextRowId == RowIdBase + Len(rows) + 1

\* the change feed: an INSERT reaches the channel the client has joined for that room
Publish(row) ==
    IF effect # 0 /\ subscribed /\ row.room_id = room
       THEN events \cup {[gen |-> effect, row |-> row]}
       ELSE events

\* the table takes or refuses the insert of an authenticated Keep
KeepServer(i, ok) ==
    /\ i \in 1..Len(keeps)
    /\ keeps[i].st = "sent"
    /\ ok => keeps[i].auth
    /\ IF ok
          THEN /\ rows' = Append(rows, Row(NextRowId, keeps[i]))
               /\ events' = Publish(Row(NextRowId, keeps[i]))
               /\ keeps' = [keeps EXCEPT ![i].st = "ok"]
          ELSE /\ keeps' = [keeps EXCEPT ![i].st = "error"]
               /\ UNCHANGED <<rows, events>>
    /\ lastOp' = "keepServer" /\ lastArg' = 0
    /\ UNCHANGED gemini
    /\ UNCHANGED presV
    /\ UNCHANGED <<alerts, gen, effect, subscribed, fetches, authV, camV, setV, capV,
                   filmV, warnV, slotV, storeV, zV>>

\* another client of room r keeps a card
OtherInsert(r, pos, z) ==
    LET row == [id |-> NextRowId, room_id |-> r, data_url |-> DataUrl("photo", 0),
                caption |-> NoCaption, x |-> pos[1], y |-> pos[2],
                rotation |-> 0, z_index |-> z]
    IN /\ rows' = Append(rows, row)
       /\ events' = Publish(row)
       /\ lastOp' = "otherInsert" /\ lastArg' = 0
       /\ UNCHANGED gemini
       /\ UNCHANGED presV
       /\ UNCHANGED <<keeps, alerts, gen, effect, subscribed, fetches, authV, camV, setV,
                      capV, filmV, warnV, slotV, storeV, zV>>

(* ----------------------- load and subscribe --------------------------- *)
\* the effect on [room, user]: the cleanup of the previous run, then the new run
RunEffect(u, r) ==
    /\ photos' = <<>>
    /\ subscribed' = FALSE
    /\ IF u = NoUser
          THEN /\ effect' = 0
               /\ UNCHANGED <<gen, fetches, cursors>>
          ELSE /\ cursors' = NoCursors
               /\ gen' = gen + 1
               /\ effect' = gen + 1
               /\ fetches' = fetches \cup {[gen |-> gen + 1, room |-> r, st |-> "sent", data |-> <<>>]}

SetRoom(r) ==
    /\ r # room
    /\ room' = r
    /\ RunEffect(user, r)
    /\ lastOp' = "setRoom" /\ lastArg' = 0
    /\ UNCHANGED gemini
    /\ UNCHANGED <<casts, now, throttle, sinceCast>>
    /\ UNCHANGED <<user, events, settleTimers, camV, setV, capV, filmV, warnV, slotV, zV, dbV>>

SignIn(u) ==
    /\ user = NoUser
    /\ user' = u
    /\ RunEffect(u, room)
    /\ lastOp' = "signIn" /\ lastArg' = 0
    /\ UNCHANGED gemini
    /\ throttle' = NoThrottle
    /\ UNCHANGED <<casts, now, sinceCast>>
    /\ UNCHANGED <<room, events, settleTimers, camV, setV, capV, filmV, warnV, slotV, zV, dbV>>

SignOut ==
    /\ user # NoUser
    /\ user' = NoUser
    /\ RunEffect(NoUser, room)
    /\ lastOp' = "signOut" /\ lastArg' = 0
    /\ UNCHANGED gemini
    /\ throttle' = NoThrottle
    /\ UNCHANGED <<casts, now, sinceCast>>
    /\ UNCHANGED <<room, events, settleTimers, camV, setV, capV, filmV, warnV, slotV, zV, dbV>>

\* .eq('room_id', room).order('created_at', { ascending: true }).limit(50)
RECURSIVE SelectRoom(_, _)
SelectRoom(rs, r) ==
    IF rs = <<>> THEN <<>>
    ELSE IF Head(rs).room_id = r THEN <<Head(rs)>> \o SelectRoom(Tail(rs), r)
    ELSE SelectRoom(Tail(rs), r)

Limit(rs, n) == IF Len(rs) <= n THEN rs ELSE SubSeq(rs, 1, n)

Query(r) == Limit(SelectRoom(rows, r), FetchLimit)

\* p.x >= 0 && p.x <= 1 && p.y >= 0 && p.y <= 1
IsNormalized(p) ==
    /\ 0 <= p.x.num /\ p.x.num <= p.x.den
    /\ 0 <= p.y.num /\ p.y.num <= p.y.den

\* isNormalized ? p.x * window.innerWidth : p.x, and the same for y, in a
\* viewport of w by h pixels
Placement(p, w, h) ==
    <<IF IsNormalized(p) THEN (p.x.num * w) \div p.x.den ELSE p.x.num \div p.x.den,
      IF IsNormalized(p) THEN (p.y.num * h) \div p.y.den ELSE p.y.num \div p.y.den>>

\* the Photo made of a row by fetchPhotos (developing = false) and by the INSERT handler (true)
ToPhoto(p, developing) ==
    [id |-> p.id, dataUrl |-> p.data_url, caption |-> p.caption,
     x |-> Placement(p, InnerWidth, InnerHeight)[1],
     y |-> Placement(p, InnerWidth, InnerHeight)[2],
     rotation |-> p.rotation, zIndex |-> p.z_index,
     isDeveloping |-> developing, mediaType |-> p.data_url.media]

Mapped(data) == [i \in 1..Len(data) |-> ToPhoto(data[i], FALSE)]

\* the select of fetchPhotos is answered by the server
FetchAnswer(f, ok) ==
    /\ f \in fetches
    /\ f.st = "sent"
    /\ fetches' = (fetches \ {f}) \cup
                  {IF ok THEN [f EXCEPT !.st = "data", !.data = Query(f.room)]
                         ELSE [f EXCEPT !.st = "error"]}
    /\ lastOp' = "fetchAnswer" /\ lastArg' = 0
    /\ UNCHANGED gemini
    /\ UNCHANGED presV
    /\ UNCHANGED <<gen, effect, subscribed, events, authV, camV, setV, capV, filmV,
                   warnV, slotV, storeV, zV, dbV>>

\* the ignore flag of the effect run a callback belongs to
Ignore(g) == g # effect

\* fetchPhotos after its await
FetchDone(f) ==
    /\ f \in fetches
    /\ f.st # "sent"
    /\ fetches' = fetches \ {f}
    /\ IF ~Ignore(f.gen) /\ f.st = "data"
          THEN /\ photos' = Mapped(f.data)
               /\ maxZIndex' = IF Len(f.data) > 0
                                  THEN MaxOf({f.data[i].z_index : i \in 1..Len(f.data)}) + 1
                                  ELSE maxZIndex
          ELSE UNCHANGED <<photos, maxZIndex>>
    /\ lastOp' = "fetchDone" /\ lastArg' = f.gen
    /\ UNCHANGED gemini
    /\ UNCHANGED presV
    /\ UNCHANGED <<gen, effect, subscribed, events, settleTimers, issued, issuedBefore,
                   authV, camV, setV, capV, filmV, warnV, slotV, dbV>>

\* the channel of the live effect run is joined
SubscribeAck ==
    /\ effect # 0
    /\ ~subscribed
    /\ subscribed' = TRUE
    /\ lastOp' = "subscribed" /\ lastArg' = 0
    /\ UNCHANGED gemini
    /\ UNCHANGED presV
    /\ UNCHANGED <<gen, effect, fetches, events, authV, camV, setV, capV, filmV,
                   warnV, slotV, storeV, zV, dbV>>

\* an insert that overwrites the entry with the same id
InsertOrReplace(prev, newPhoto) ==
    IF newPhoto.id \in Ids(prev)
       THEN [i \in 1..Len(prev) |-> IF prev[i].id = newPhoto.id THEN newPhoto ELSE prev[i]]
       ELSE Append(prev, newPhoto)

\* setPhotos(prev => prev.find(e => e.id === newPhoto.id) ? prev : [...prev, newPhoto])
InsertIfAbsent(prev, newPhoto) ==
    IF newPhoto.id \in Ids(prev) THEN prev ELSE Append(prev, newPhoto)

\* the postgres_changes INSERT handler
InsertEvent(e) ==
    /\ e \in events
    /\ events' = events \ {e}
    /\ IF Ignore(e.gen)
          THEN UNCHANGED <<photos, settleTimers>>
          ELSE /\ photos' = InsertIfAbsent(photos, ToPhoto(e.row, TRUE))
               /\ settleTimers' = settleTimers \cup {e.row.id}
    /\ lastOp' = "insertEvent" /\ lastArg' = e.gen
    /\ UNCHANGED gemini
    /\ UNCHANGED presV
    /\ UNCHANGED <<gen, effect, subscribed, fetches, authV, camV, setV, capV, filmV,
                   warnV, slotV, zV, dbV>>

(* ------------------------------ presence ------------------------------ *)
\* colorHash % 360 of handleMouseMove, for the ids of the model ("u" is 117)
Hue(u) == IF u = "u1" THEN (117 + 49) % 360 ELSE (117 + 50) % 360

\* handleMouseMove on a client signed in as u, in the room of this client: the
\* broadcast reaches the channel this client has joined
PeerCast(u, spot) ==
    /\ effect # 0
    /\ subscribed
    /\ casts' = casts \cup {[gen |-> effect, me |-> user,
                              payload |-> [userId |-> u, x |-> spot[1], y |-> spot[2],
                                           color |-> Hue(u)]]}
    /\ lastOp' = "peerCast" /\ lastArg' = 0
    /\ UNCHANGED gemini
    /\ UNCHANGED <<cursors, now, throttle, sinceCast, authV, camV, setV, capV, filmV, warnV, slotV, storeV, zV,
                   syncV, dbV>>

\* { ...prev, [userId]: entry }
Put(prev, userId, entry) ==
    [u \in DOMAIN prev \cup {userId} |-> IF u = userId THEN entry ELSE prev[u]]

\* the broadcast CURSOR handler of the effect run that joined the channel; me
\* is the user that run closed over
CursorEvent(c) ==
    /\ c \in casts
    /\ casts' = casts \ {c}
    /\ IF c.payload.userId = c.me
          THEN UNCHANGED cursors
          ELSE cursors' = Put(cursors, c.payload.userId,
                              [x |-> c.payload.x, y |-> c.payload.y,
                               color |-> c.payload.color, lastUpdate |-> now])
    /\ lastOp' = "cursorEvent" /\ lastArg' = c.payload.userId
    /\ UNCHANGED gemini
    /\ UNCHANGED <<now, throttle, sinceCast, authV, camV, setV, capV, filmV, warnV, slotV,
                   storeV, zV, syncV, dbV>>

\* a sweep that also deletes the entries updated exactly 2000 ms ago
IsStaleAtThreshold(cursor) == now - cursor.lastUpdate >= StaleAfter

\* the entries the sweep deletes
IsStale(cursor) == now - cursor.lastUpdate > StaleAfter

\* the callback of setInterval(..., 1000)
Sweep ==
    /\ cursors' = [u \in {v \in DOMAIN cursors : ~IsStale(cursors[v])} |-> cursors[u]]
    /\ lastOp' = "sweep" /\ lastArg' = 0
    /\ UNCHANGED gemini
    /\ UNCHANGED <<casts, now, throttle, sinceCast, authV, camV, setV, capV, filmV, warnV, slotV, storeV, zV,
                   syncV, dbV>>

\* d ms pass.  Only differences of Date.now() are read, so once the clock of
\* the model has reached MaxNow its origin moves forward instead; an entry
\* that would fall before the origin is older than StaleAfter and stays so
Elapse(d) ==
    /\ IF now + d <= MaxNow
          THEN /\ now' = now + d
               /\ UNCHANGED cursors
          ELSE /\ now' = now
               /\ cursors' = [u \in DOMAIN cursors |->
                                 [cursors[u] EXCEPT !.lastUpdate = IF @ > d THEN @ - d ELSE 0]]
    /\ throttle' = [throttle EXCEPT !.left = IF @ > d THEN @ - d ELSE 0]
    /\ sinceCast' = IF sinceCast + d >= ThrottleLimit THEN ThrottleLimit ELSE sinceCast + d
    /\ lastOp' = "elapse" /\ lastArg' = 0
    /\ UNCHANGED gemini
    /\ UNCHANGED <<casts, authV, camV, setV, capV, filmV, warnV, slotV, storeV, zV, syncV, dbV>>

\* onMouseMove: the throttled handleMouseMove of this render.  A call that is
\* let through sends the CURSOR broadcast unless !user || !channelRef.current
\* (lastArg is 1 when it was sent), and starts the timer of the throttle
HandleMouseMove ==
    /\ IF throttle.inThrottle
          THEN /\ lastArg' = 0
               /\ UNCHANGED <<throttle, sinceCast>>
          ELSE /\ throttle' = [inThrottle |-> TRUE, left |-> ThrottleLimit]
               /\ IF user = NoUser \/ effect = 0
                     THEN lastArg' = 0 /\ UNCHANGED sinceCast
                     ELSE lastArg' = 1 /\ sinceCast' = 0
    /\ lastOp' = "mouseMove"
    /\ UNCHANGED gemini
    /\ UNCHANGED <<cursors, casts, now, authV, camV, setV, capV, filmV, warnV, slotV, storeV,
                   zV, syncV, dbV>>

\* setTimeout(() => inThrottle = false, limit)
ThrottleTimer ==
    /\ throttle.inThrottle
    /\ throttle.left = 0
    /\ throttle' = NoThrottle
    /\ lastOp' = "throttleTimer" /\ lastArg' = 0
    /\ UNCHANGED gemini
    /\ UNCHANGED <<cursors, casts, now, sinceCast, authV, camV, setV, capV, filmV, warnV, slotV,
                   storeV, zV, syncV, dbV>>

\* onAuthStateChange hands over the session of the account that is signed in
\* once more (as after getSession, or when the token is refreshed): setUser
\* gets a new object, the effect on [room, user] runs again and useCallback
\* makes a new throttled handleMouseMove
AuthRefresh ==
    /\ user # NoUser
    /\ RunEffect(user, room)
    /\ throttle' = NoThrottle
    /\ lastOp' = "authRefresh" /\ lastArg' = 0
    /\ UNCHANGED gemini
    /\ UNCHANGED <<casts, now, sinceCast>>
    /\ UNCHANGED <<user, room, events, settleTimers, camV, setV, capV, filmV, warnV, slotV, zV, dbV>>

(* ------------- load and subscribe, as src/App.tsx has it -------------- *)
\* the effect on [room, user] of src/App.tsx: the store is emptied only when
\* nobody is signed in, and no run carries an ignore flag
RunEffectApp(u, r) ==
    /\ subscribed' = FALSE
    /\ IF u = NoUser
          THEN /\ photos' = <<>>
               /\ effect' = 0
               /\ UNCHANGED <<gen, fetches>>
          ELSE /\ gen' = gen + 1
               /\ effect' = gen + 1
               /\ fetches' = fetches \cup {[gen |-> gen + 1, room |-> r, st |-> "sent", data |-> <<>>]}
               /\ UNCHANGED photos

SetRoomApp(r) ==
    /\ r # room
    /\ room' = r
    /\ RunEffectApp(user, r)
    /\ lastOp' = "setRoom" /\ lastArg' = 0
    /\ UNCHANGED gemini
    /\ UNCHANGED presV
    /\ UNCHANGED <<user, events, settleTimers, camV, setV, capV, filmV, warnV, slotV, zV, dbV>>

SignInApp(u) ==
    /\ user = NoUser
    /\ user' = u
    /\ RunEffectApp(u, room)
    /\ lastOp' = "signIn" /\ lastArg' = 0
    /\ UNCHANGED gemini
    /\ UNCHANGED presV
    /\ UNCHANGED <<room, events, settleTimers, camV, setV, capV, filmV, warnV, slotV, zV, dbV>>

SignOutApp ==
    /\ user # NoUser
    /\ user' = NoUser
    /\ RunEffectApp(NoUser, room)
    /\ lastOp' = "signOut" /\ lastArg' = 0
    /\ UNCHANGED gemini
    /\ UNCHANGED presV
    /\ UNCHANGED <<room, events, settleTimers, camV, setV, capV, filmV, warnV, slotV, zV, dbV>>

\* the Photo src/App.tsx makes of a row: x and y as the row has them
ToPhotoApp(p, developing) ==
    [id |-> p.id, dataUrl |-> p.data_url, caption |-> p.caption,
     x |-> p.x, y |-> p.y, rotation |-> p.rotation, zIndex |-> p.z_index,
     isDeveloping |-> developing]

MappedApp(data) == [i \in 1..Len(data) |-> ToPhotoApp(data[i], FALSE)]

\* fetchPhotos of src/App.tsx after its await: if (data) { setPhotos(mapped); ... }
FetchDoneApp(f) ==
    /\ f \in fetches
    /\ f.st # "sent"
    /\ fetches' = fetches \ {f}
    /\ IF f.st = "data"
          THEN /\ photos' = MappedApp(f.data)
               /\ maxZIndex' = IF Len(f.data) > 0
                                  THEN MaxOf({f.data[i].z_index : i \in 1..Len(f.data)}) + 1
                                  ELSE maxZIndex
          ELSE UNCHANGED <<photos, maxZIndex>>
    /\ lastOp' = "fetchDone" /\ lastArg' = f.gen
    /\ UNCHANGED gemini
    /\ UNCHANGED presV
    /\ UNCHANGED <<gen, effect, subscribed, events, settleTimers, issued, issuedBefore,
                   authV, camV, setV, capV, filmV, warnV, slotV, dbV>>

\* the INSERT handler of src/App.tsx, called for the channel that has not been removed
InsertEventApp(e) ==
    /\ e \in events
    /\ e.gen = effect
    /\ events' = events \ {e}
    /\ photos' = InsertIfAbsent(photos, ToPhotoApp(e.row, TRUE))
    /\ settleTimers' = settleTimers \cup {e.row.id}
    /\ lastOp' = "insertEvent" /\ lastArg' = e.gen
    /\ UNCHANGED gemini
    /\ UNCHANGED presV
    /\ UNCHANGED <<gen, effect, subscribed, fetches, authV, camV, setV, capV, filmV,
                   warnV, slotV, zV, dbV>>

(* --------------------------- specification ---------------------------- *)
\* placements of rows written by other clients: fractions of their viewport
OtherPlacements == {<<[num |-> 1, den |-> 2], [num |-> 1, den |-> 4]>>}

CaptureActions ==
    \/ TakePhoto
    \/ EjectMedia
    \/ FlagsTimer
    \/ EjectTimer
    \/ \E id \in captionCalls : CaptionArrive(id, AiCaption)

GestureActions ==
    \/ PointerDown
    \/ \E dest \in Dests, rotation \in Rotations : PointerUp(dest, rotation)
    \/ \E id \in settleTimers : SettleTimer(id)

FetchActions ==
    \/ \E f \in fetches, ok \in BOOLEAN : FetchAnswer(f, ok)
    \/ \E f \in fetches : FetchDone(f)
    \/ SubscribeAck
    \/ \E e \in events : InsertEvent(e)

InsertActions ==
    \/ \E i \in 1..Len(keeps), ok \in BOOLEAN : KeepServer(i, ok)
    \/ \E i \in 1..Len(keeps) : KeepResume(i)

\* the whole program and its environment
Next ==
    \/ PowerToggle
    \/ \E granted \in BOOLEAN : CameraResolve(granted)
    \/ ToggleMode
    \/ ToggleAi
    \/ CaptureActions
    \/ WarnTimer
    \/ HandleReload
    \/ ReloadTimer
    \/ \E id \in Ids(photos) : FocusCard(id)
    \/ GestureActions
    \/ Reset
    \/ InsertActions
    \/ \E r \in Rooms \ {""}, pos \in OtherPlacements, z \in OtherZ : OtherInsert(r, pos, z)
    \/ \E r \in Rooms : SetRoom(r)
    \/ \E u \in Users : SignIn(u)
    \/ SignOut
    \/ FetchActions

Spec == Init /\ [][Next]_vars

\* a capture is accepted only while an identifier is left for it
IdsLeft == shot # NoShot => FreeIds # {}

(* The film roll of a signed-out client that switches the camera on, enters  *)
(* a room key and then takes, keeps and resets photos and reloads.           *)
NextFilm ==
    \/ PowerToggle
    \/ \E granted \in BOOLEAN : CameraResolve(granted)
    \/ \E r \in Rooms : SetRoom(r)
    \/ ToggleMode
    \/ CaptureActions
    \/ GestureActions
    \/ Reset
    \/ WarnTimer
    \/ HandleReload
    \/ ReloadTimer

FilmBounded ==
    /\ maxZIndex <= InitialMaxZ + FilmZSteps
    /\ Len(photos) <= FilmPhotos
    /\ warnTimers <= WarnTimers
    /\ IdsLeft

\* the camera stays on, the room key entered is r1 and stays, and the reload
\* button is pressed while it is shown (shotsLeft === 0)
FilmEnv ==
    /\ isPoweredOn => isPoweredOn'
    /\ room' \in {"", "r1"}
    /\ room # "" => room' = room
    /\ lastOp' = "reload" => shotsLeft = 0

SpecFilm == Init /\ [][NextFilm /\ FilmEnv /\ FilmBounded']_vars

(* The store of a client that signs in and out, changes room and receives    *)
(* the cards other clients keep.                                             *)
NextSync ==
    \/ \E r \in Rooms : SetRoom(r)
    \/ \E u \in Users : SignIn(u)
    \/ SignOut
    \/ \E r \in Rooms \ {""}, pos \in OtherPlacements, z \in OtherZ : OtherInsert(r, pos, z)
    \/ FetchActions
    \/ \E id \in settleTimers : SettleTimer(id)
    \/ \E id \in Ids(photos) : FocusCard(id)
    \/ Reset

SyncBounded ==
    /\ maxZIndex <= InitialMaxZ + SyncZSteps
    /\ Len(rows) <= SyncRows
    /\ gen <= SyncGen

SpecSync == Init /\ [][NextSync /\ SyncBounded']_vars

(* The same client and environment, running src/App.tsx.                     *)
InitApp == InitRoom(GlobalRoom)

NextApp ==
    \/ \E r \in Rooms : SetRoomApp(r)
    \/ \E u \in Users : SignInApp(u)
    \/ SignOutApp
    \/ \E r \in Rooms \ {""}, pos \in OtherPlacements, z \in OtherZ : OtherInsert(r, pos, z)
    \/ \E f \in fetches, ok \in BOOLEAN : FetchAnswer(f, ok)
    \/ \E f \in fetches : FetchDoneApp(f)
    \/ SubscribeAck
    \/ \E e \in events : InsertEventApp(e)
    \/ \E id \in settleTimers : SettleTimer(id)
    \/ \E id \in Ids(photos) : FocusCard(id)
    \/ Reset

AppBounded ==
    /\ maxZIndex <= InitialMaxZ + AppZSteps
    /\ Len(rows) <= AppRows
    /\ gen <= AppGen

SpecApp == InitApp /\ [][NextApp /\ AppBounded']_vars

(* A client that enters the room key r1, signs in and stays, while other     *)
(* clients keep cards.  The server answers every request, the channel is     *)
(* joined, and every callback and timer that is due runs.                    *)
NextJoin ==
    \/ \E r \in Rooms : SetRoom(r)
    \/ \E u \in Users : SignIn(u)
    \/ \E r \in Rooms \ {""}, pos \in OtherPlacements, z \in OtherZ : OtherInsert(r, pos, z)
    \/ FetchActions
    \/ \E id \in settleTimers : SettleTimer(id)
    \/ \E id \in Ids(photos) : FocusCard(id)

JoinBounded ==
    /\ maxZIndex <= InitialMaxZ + JoinZSteps
    /\ Len(rows) <= JoinRows

JoinEnv ==
    /\ room' \in {"", "r1"}
    /\ room # "" => room' = room
    /\ room = "" => user' = NoUser
    /\ \A f \in fetches' : f.st # "error"

JoinFair ==
    /\ WF_vars(FetchActions /\ JoinEnv)
    /\ WF_vars(\E id \in settleTimers : SettleTimer(id))

SpecJoin == Init /\ [][NextJoin /\ JoinEnv /\ JoinBounded']_vars /\ JoinFair

(* A client that joins a room in which other clients have kept many cards:  *)
(* the rows are written to r1 while nobody is signed in on this client.      *)
NextLoad ==
    \/ \E r \in Rooms : SetRoom(r)
    \/ \E u \in Users : SignIn(u)
    \/ SignOut
    \/ \E r \in Rooms \ {""}, pos \in OtherPlacements, z \in OtherZ : OtherInsert(r, pos, z)
    \/ \E f \in fetches, ok \in BOOLEAN : FetchAnswer(f, ok)
    \/ \E f \in fetches : FetchDone(f)

LoadBounded ==
    /\ Len(rows) <= LoadRows
    /\ gen <= LoadGen

LoadEnv ==
    /\ rows' # rows => user = NoUser /\ rows'[Len(rows')].room_id = "r1"

SpecLoad == Init /\ [][NextLoad /\ LoadEnv /\ LoadBounded']_vars

(* The film roll of a signed-out client that types any room key, switches    *)
(* the camera on and off, calls handleReload at any moment, and takes and    *)
(* keeps photos.  The timers of the warning and of the reload, once set,     *)
(* fire.                                                                     *)
NextRoll ==
    \/ PowerToggle
    \/ \E granted \in BOOLEAN : CameraResolve(granted)
    \/ \E r \in {"", Blank, "r1"} : SetRoom(r)
    \/ CaptureActions
    \/ GestureActions
    \/ WarnTimer
    \/ HandleReload
    \/ ReloadTimer

RollBounded ==
    /\ maxZIndex <= InitialMaxZ + RollZSteps
    /\ Len(photos) <= RollPhotos
    /\ warnTimers <= RollWarns
    /\ reloadTimers <= RollReloads
    /\ IdsLeft

RollFair ==
    /\ WF_vars(WarnTimer)
    /\ WF_vars(ReloadTimer)

SpecRoll == Init /\ [][NextRoll /\ RollBounded']_vars /\ RollFair

(* Presence: a client in room r1 that signs in and out with either account   *)
(* while pointers move on other clients.  Time passes and the interval timer *)
(* of the sweep fires.                                                       *)
NextPresence ==
    \/ \E r \in Rooms : SetRoom(r)
    \/ \E u \in Peers : SignIn(u)
    \/ SignOut
    \/ SubscribeAck
    \/ \E u \in Peers, spot \in Spots : PeerCast(u, spot)
    \/ \E c \in casts : CursorEvent(c)
    \/ Sweep
    \/ \E d \in Elapsed : Elapse(d)

PresBounded ==
    /\ gen <= PresGen
    /\ Cardinality(casts) <= PresCasts

\* the room key r1 is entered first and stays
PresEnv ==
    /\ room' \in {"", "r1"}
    /\ room # "" => room' = room
    /\ room = "" => user' = NoUser

PresFair ==
    /\ WF_vars(Sweep)
    /\ WF_vars(\E d \in Elapsed : Elapse(d))

SpecPresence == Init /\ [][NextPresence /\ PresEnv /\ PresBounded']_vars /\ PresFair

(* The same signed-out client over one Keep; a capture that was accepted is  *)
(* ejected when its timer or its recorder is done, and the timers of the     *)
(* ejection fire.                                                            *)
NextReel ==
    \/ PowerToggle
    \/ \E granted \in BOOLEAN : CameraResolve(granted)
    \/ \E r \in Rooms : SetRoom(r)
    \/ ToggleMode
    \/ CaptureActions
    \/ GestureActions
    \/ Reset
    \/ WarnTimer

ReelBounded ==
    /\ maxZIndex <= InitialMaxZ + ReelZSteps
    /\ Len(photos) <= ReelPhotos
    /\ warnTimers <= WarnTimers
    /\ IdsLeft

ReelFair ==
    /\ WF_vars(EjectMedia)
    /\ WF_vars(FlagsTimer)
    /\ WF_vars(EjectTimer)

SpecReel == Init /\ [][NextReel /\ FilmEnv /\ ReelBounded']_vars /\ ReelFair

(* Reset: a client that enters r1, signs in and switches the camera on,      *)
(* takes a photo, sees the cards and the pointers of other clients, and      *)
(* presses Reset.                                                            *)
NextWipe ==
    \/ PowerToggle
    \/ \E granted \in BOOLEAN : CameraResolve(granted)
    \/ \E r \in Rooms : SetRoom(r)
    \/ \E u \in Users : SignIn(u)
    \/ CaptureActions
    \/ \E r \in Rooms \ {""}, pos \in OtherPlacements, z \in OtherZ : OtherInsert(r, pos, z)
    \/ FetchActions
    \/ \E id \in settleTimers : SettleTimer(id)
    \/ \E u \in Peers, spot \in Spots : PeerCast(u, spot)
    \/ \E c \in casts : CursorEvent(c)
    \/ Reset

WipeBounded ==
    /\ Len(rows) <= WipeRows
    /\ gen <= WipeGen
    /\ Cardinality(casts) <= WipeCasts
    /\ shotsLeft >= Capacity - WipeShots
    /\ warnTimers = 0
    /\ IdsLeft

\* the room key r1 is entered, then the client signs in, then the camera is
\* switched on; all three stay
WipeEnv ==
    /\ isPoweredOn => isPoweredOn'
    /\ room' \in {"", "r1"}
    /\ room # "" => room' = room
    /\ room = "" => user' = NoUser
    /\ user = NoUser => ~isPoweredOn'

SpecWipe == Init /\ [][NextWipe /\ WipeEnv /\ WipeBounded']_vars

(* Captions: a signed-out client of a build with or without a credential     *)
(* takes and keeps photos; the caption service throws, or answers with any   *)
(* of the responses.                                                         *)
ApiKeys == {"", "key"}

InitCaption == \E k \in ApiKeys : InitBuild("", k)

NextCaption ==
    \/ PowerToggle
    \/ \E granted \in BOOLEAN : CameraResolve(granted)
    \/ \E r \in Rooms : SetRoom(r)
    \/ TakePhoto
    \/ EjectMedia
    \/ FlagsTimer
    \/ EjectTimer
    \/ \E id \in captionCalls, reply \in Replies : CaptionSettle(id, reply)
    \/ GestureActions
    \/ WarnTimer

CaptionBounded ==
    /\ maxZIndex <= InitialMaxZ + AiZSteps
    /\ Len(photos) <= AiPhotos
    /\ warnTimers <= WarnTimers
    /\ IdsLeft

SpecCaption == InitCaption /\ [][NextCaption /\ FilmEnv /\ CaptionBounded']_vars

(* Focus: a client that enters r1, signs in and clicks the cards other        *)
(* clients keep; the counter of another client may be behind or ahead of     *)
(* the counter of this one.                                                  *)
PeerZ == {29, 32}

NextTop ==
    \/ \E r \in Rooms : SetRoom(r)
    \/ \E u \in Users : SignIn(u)
    \/ \E r \in Rooms \ {""}, pos \in OtherPlacements, z \in PeerZ : OtherInsert(r, pos, z)
    \/ FetchActions
    \/ \E id \in settleTimers : SettleTimer(id)
    \/ \E id \in Ids(photos) : FocusCard(id)

TopBounded ==
    /\ maxZIndex <= InitialMaxZ + TopZSteps
    /\ Len(rows) <= TopRows
    /\ gen <= TopGen

\* the room key r1 is entered first and stays; rows are written to r1
TopEnv ==
    /\ room' \in {"", "r1"}
    /\ room # "" => room' = room
    /\ room = "" => user' = NoUser
    /\ rows' # rows => rows'[Len(rows')].room_id = "r1"

SpecTop == Init /\ [][NextTop /\ TopEnv /\ TopBounded']_vars

(* Keeps: a client that switches the camera on, enters a room key, may sign  *)
(* in, and takes and keeps photos.                                           *)
NextKeep ==
    \/ PowerToggle
    \/ \E granted \in BOOLEAN : CameraResolve(granted)
    \/ \E r \in Rooms : SetRoom(r)
    \/ \E u \in Users : SignIn(u)
    \/ CaptureActions
    \/ GestureActions
    \/ \E id \in Ids(photos) : FocusCard(id)
    \/ InsertActions
    \/ SubscribeAck
    \/ \E e \in events : InsertEvent(e)
    \/ WarnTimer

KeepBounded ==
    /\ maxZIndex <= InitialMaxZ + KeepZSteps
    /\ warnTimers <= WarnTimers
    /\ Len(photos) <= KeepPhotos
    /\ Len(rows) <= KeepRows
    /\ Len(keeps) <= KeepInflight
    /\ shotsLeft >= Capacity - KeepShots
    /\ IdsLeft

\* the room key r1 is entered, then the client signs in, then the camera is
\* switched on; all three stay
KeepEnv ==
    /\ isPoweredOn => isPoweredOn'
    /\ room' \in {"", "r1"}
    /\ room # "" => room' = room
    /\ room = "" => user' = NoUser
    /\ user = NoUser => ~isPoweredOn'

SpecKeep == Init /\ [][NextKeep /\ KeepEnv /\ KeepBounded']_vars

\* the same client, with one insert call in flight at a time
OneBounded ==
    /\ maxZIndex <= InitialMaxZ + OneZSteps
    /\ warnTimers <= WarnTimers
    /\ Len(photos) <= OnePhotos
    /\ Len(rows) <= OneRows
    /\ Len(keeps) <= OneInflight
    /\ shotsLeft >= Capacity - OneShots
    /\ IdsLeft

SpecKeepOne == Init /\ [][NextKeep /\ KeepEnv /\ OneBounded']_vars

(* Development: a client that takes and keeps photos signed out or signed in, *)
(* receives the cards other clients keep, and resets the wall.  Every timer   *)
(* that was set fires.                                                        *)
NextSettle ==
    \/ PowerToggle
    \/ \E granted \in BOOLEAN : CameraResolve(granted)
    \/ \E r \in Rooms : SetRoom(r)
    \/ \E u \in Users : SignIn(u)
    \/ SignOut
    \/ CaptureActions
    \/ GestureActions
    \/ InsertActions
    \/ \E r \in Rooms \ {""}, pos \in OtherPlacements, z \in OtherZ : OtherInsert(r, pos, z)
    \/ FetchActions
    \/ Reset

SettleBounded ==
    /\ maxZIndex <= InitialMaxZ + SettleZSteps
    /\ Len(photos) <= SettlePhotos
    /\ Len(rows) <= SettleRows
    /\ Len(keeps) <= SettleInflight
    /\ gen <= SettleGen
    /\ shotsLeft >= Capacity - SettleShots
    /\ IdsLeft

\* the room key entered is r1 and stays; the camera is switched on after that
\* and stays on, and the shutter is pressed when it takes a capture
SettleEnv ==
    /\ isPoweredOn => isPoweredOn'
    /\ room' \in {"", "r1"}
    /\ room # "" => room' = room
    /\ room = "" => ~isPoweredOn'
    /\ warnTimers' = warnTimers

\* the ids a card of the store can have: of a capture, or of a row
CardIds == (1..MaxIds) \cup {RowIdBase + n : n \in 1..(SettleRows + 1)}

SettleFair == \A id \in CardIds : WF_vars(SettleTimer(id))

SpecSettle == Init /\ [][NextSettle /\ SettleEnv /\ SettleBounded']_vars /\ SettleFair

(* Placement: a signed-in client that keeps a photo at any point a drag can   *)
(* end at, and reads the card back from the change feed and from a fetch.     *)
NextPlace ==
    \/ PowerToggle
    \/ \E granted \in BOOLEAN : CameraResolve(granted)
    \/ \E r \in Rooms : SetRoom(r)
    \/ \E u \in Users : SignIn(u)
    \/ CaptureActions
    \/ PointerDown
    \/ \E dest \in DragDests, rotation \in Rotations : PointerUp(dest, rotation)
    \/ \E id \in settleTimers : SettleTimer(id)
    \/ InsertActions
    \/ FetchActions

PlaceBounded ==
    /\ maxZIndex <= InitialMaxZ + PlaceZSteps
    /\ Len(photos) <= PlacePhotos
    /\ Len(rows) <= PlaceRows
    /\ Len(keeps) <= PlaceInflight
    /\ shotsLeft >= Capacity - PlaceShots
    /\ IdsLeft

SpecPlace == Init /\ [][NextPlace /\ KeepEnv /\ warnTimers' = warnTimers /\ PlaceBounded']_vars

(* Pointer broadcasts: a client that signs in and out and moves the pointer   *)
(* over the camera panel, while the session is handed over again.             *)
NextCast ==
    \/ \E r \in Rooms : SetRoom(r)
    \/ \E u \in Users : SignIn(u)
    \/ SignOut
    \/ AuthRefresh
    \/ SubscribeAck
    \/ HandleMouseMove
    \/ ThrottleTimer
    \/ \E d \in MoveEvery : Elapse(d)

CastBounded == gen <= CastGen

\* the fetches of the effect runs are left unanswered
SpecCast == Init /\ [][NextCast /\ CastBounded']_vars

(* Two pointers: the signed-out client of the film roll, whose user may put a *)
(* second finger or mouse button on the pending card during a drag.           *)
NextTouch ==
    \/ PowerToggle
    \/ \E granted \in BOOLEAN : CameraResolve(granted)
    \/ \E r \in Rooms : SetRoom(r)
    \/ CaptureActions
    \/ GestureActions
    \/ PointerDownAgain

TouchBounded ==
    /\ maxZIndex <= InitialMaxZ + TouchZSteps
    /\ Len(photos) <= TouchPhotos
    /\ IdsLeft

SpecTouch == Init /\ [][NextTouch /\ FilmEnv /\ warnTimers' = warnTimers /\ TouchBounded']_vars

(* The shutter on any device: the signed-out client of the film roll, on a    *)
(* browser whose recorder or canvas may fail.  A capture that was started is  *)
(* ejected, and the timers of the ejection fire.                              *)
NextShutter ==
    \/ PowerToggle
    \/ \E granted \in BOOLEAN : CameraResolve(granted)
    \/ \E r \in Rooms : SetRoom(r)
    \/ ToggleMode
    \/ \E recorder \in BOOLEAN, ctx \in BOOLEAN : TakePhotoDevice(recorder, ctx)
    \/ EjectMedia
    \/ FlagsTimer
    \/ EjectTimer
    \/ \E id \in captionCalls : CaptionArrive(id, AiCaption)
    \/ GestureActions

ShutterBounded ==
    /\ maxZIndex <= InitialMaxZ + ShutterZSteps
    /\ Len(photos) <= ShutterPhotos
    /\ IdsLeft

SpecShutter ==
    Init /\ [][NextShutter /\ FilmEnv /\ warnTimers' = warnTimers /\ ShutterBounded']_vars /\ ReelFair

(* A client that keeps cards while nobody is signed in, then changes the     *)
(* room key, signs in and out.  Photo mode, a room key that is never empty,  *)
(* and every Keep is made signed out: there takePhoto, ejectMedia and        *)
(* handlePendingDragEnd of src/App.tsx do what those of part_001 do.         *)
GuestEffects ==
    \/ \E r \in Rooms \ {""} : SetRoom(r)
    \/ \E u \in Users : SignIn(u)
    \/ SignOut
    \/ \E f \in fetches, ok \in BOOLEAN : FetchAnswer(f, ok)
    \/ \E f \in fetches : FetchDone(f)

GuestEffectsApp ==
    \/ \E r \in Rooms \ {""} : SetRoomApp(r)
    \/ \E u \in Users : SignInApp(u)
    \/ SignOutApp
    \/ \E f \in fetches, ok \in BOOLEAN : FetchAnswer(f, ok)
    \/ \E f \in fetches : FetchDoneApp(f)

GuestCamera ==
    \/ PowerToggle
    \/ \E granted \in BOOLEAN : CameraResolve(granted)
    \/ CaptureActions
    \/ GestureActions

NextGuest == GuestEffects \/ GuestCamera

NextGuestApp == GuestEffectsApp \/ GuestCamera

GuestBounded ==
    /\ maxZIndex <= InitialMaxZ + GuestZSteps
    /\ Len(photos) <= GuestPhotos
    /\ gen <= GuestGen
    /\ IdsLeft

\* the camera stays on and the card is kept by a gesture that began signed out
GuestEnv ==
    /\ isPoweredOn => isPoweredOn'
    /\ lastOp' = "keep" => drag.user = NoUser
    /\ warnTimers' = warnTimers

SpecGuest == InitApp /\ [][NextGuest /\ GuestEnv /\ GuestBounded']_vars

SpecGuestApp == InitApp /\ [][NextGuestApp /\ GuestEnv /\ GuestBounded']_vars

(* ------------------------------- claims ------------------------------- *)
\* C1: at most one capture is on its way to or in the pending slot (a capture
\* is scheduled only while the slot is empty), and a capture request made
\* while the slot is occupied leaves the pending capture, the film count and
\* the card store unchanged and schedules no capture.
C1_SingletonPendingSlot ==
    /\ [](shot # NoShot => pendingPhoto = NoPhoto)
    /\ [][lastOp' = "takePhoto" /\ pendingPhoto # NoPhoto =>
            UNCHANGED <<pendingPhoto, shotsLeft, photos, shot, isCapturing, isRecording>>]_vars

\* a request was made, and rejected for no other reason than the occupied slot
C1_RejectedWhileOccupied ==
    /\ lastOp = "takePhoto"
    /\ pendingPhoto # NoPhoto
    /\ Trim(room) # "" /\ isPoweredOn /\ stream
    /\ shotsLeft > 0 /\ ~isReloading /\ ~isCapturing /\ ~isRecording
    /\ shot = NoShot

\* the room a fetch asked for, or an event's row belongs to, is not the room
\* key the client has now
StaleFetch(f) == f.room # room
StaleEvent(e) == e.row.room_id # room

\* C2: once the room key has changed, no fetch result and no insert event of
\* the previous room adds, replaces or modifies a card of the store.
C2_RoomSwitchIsolation ==
    [][(\A f \in fetches :
            lastOp' = "fetchDone" /\ fetches' = fetches \ {f} /\ StaleFetch(f)
                => photos' = photos)
       /\ (\A e \in events :
            lastOp' = "insertEvent" /\ events' = events \ {e} /\ StaleEvent(e)
                => photos' = photos)]_vars

\* entries of the store with the given id
Copies(id) == Cardinality({i \in 1..Len(photos) : photos[i].id = id})

\* another client's Keep has just put row k into the room this client is signed in to
KeptByOther(k) ==
    /\ lastOp = "otherInsert"
    /\ Len(rows) = k
    /\ rows[k].room_id = room
    /\ user # NoUser

\* C3: when another client of the room keeps a card, this client's store
\* eventually holds exactly one entry for it, and from then on never none and
\* never two, whatever the order of the fetch's completion, the start of the
\* subscription and the delivery of the insert event.
C3_EventuallyExactlyOne ==
    \A k \in 1..JoinRows : KeptByOther(k) ~> [](Copies(RowIdBase + k) = 1)

\* C4: an authenticated Keep empties the pending slot at once, before the
\* response to its insert request arrives, and does not change the card store.
C4_SlotEmptiedAtOnce ==
    [][lastOp' = "keep" /\ Len(keeps') > Len(keeps) =>
          pendingPhoto' = NoPhoto /\ photos' = photos]_vars

\* rows of the table that carry the media payload of capture n
RowsOf(n) == {i \in 1..Len(rows) : rows[i].data_url.n = n}

\* C5: the table receives at most one row per capture.
C5_AtMostOneInsert ==
    \A n \in 1..MaxIds : Cardinality(RowsOf(n)) <= 1

\* C6: no step of a Keep empties the pending slot while the slot holds a
\* capture other than the one the Keep was issued for.
C6_KeepOnlyItsCapture ==
    [][lastOp' \in {"keep", "keepResume"} /\ pendingPhoto # NoPhoto
          /\ pendingPhoto.id # lastArg' => pendingPhoto' = pendingPhoto]_vars

\* C8: each stack order given to a card or to an insert request is greater
\* than every stack order given out before it.
C8_StackOrderIncreases == issued = 0 \/ issued > issuedBefore

\* C7: a caption that arrives once an unauthenticated Keep has moved its
\* capture into the card store is given to the store entry of that capture.
C7_LateCaptionReachesStore ==
    [][lastOp' = "caption" /\ lastArg' \in Ids(photos) =>
          \A i \in 1..Len(photos') :
              (photos'[i].id = lastArg' => photos'[i].caption = AiCaption)]_vars

\* C9: the insert event of a row whose id the store already holds leaves the
\* store as it is: as many entries, each with the position, rotation, stack
\* order and lifecycle state it had.
C9_DuplicateInsertIgnored ==
    [][\A e \in events :
          lastOp' = "insertEvent" /\ events' = events \ {e} /\ e.row.id \in Ids(photos)
              => photos' = photos]_vars

\* the handler of the live subscription has just run for the one row of the
\* table, and the entry of that row is not the developing one the handler makes
C9_DuplicateApplied ==
    /\ lastOp = "insertEvent"
    /\ effect # 0 /\ lastArg = effect
    /\ Len(rows) = 1
    /\ Len(photos) = 1
    /\ photos[1].id = rows[1].id
    /\ ~photos[1].isDeveloping

\* C10: the counter stays within 0..8 and every accepted photo takes one off
\* it; at 0 a capture request changes nothing and schedules no capture, and
\* the counter stays 0 until the reload timer fires; when it fires the counter
\* is 8 and the governor is not reloading.
C10_GovernorConservation ==
    /\ [](shotsLeft \in 0..Capacity)
    /\ [][(shot' # shot /\ shot' # NoShot /\ shot'.kind = "photo"
               => shotsLeft > 0 /\ shotsLeft' = shotsLeft - 1)
           /\ (shotsLeft = 0 /\ lastOp' = "takePhoto"
               => UNCHANGED <<shotsLeft, shot, pendingPhoto, isCapturing, isRecording>>)
           /\ (shotsLeft = 0 /\ lastOp' # "reloadTimer" => shotsLeft' = 0)
           /\ (lastOp' = "reloadTimer" => shotsLeft' = Capacity /\ ~isReloading')]_vars

\* the ninth request: eight photos taken and kept, the slot empty, the camera ready
C10_NinthRejected ==
    /\ lastOp = "takePhoto"
    /\ shotsLeft = 0
    /\ pendingPhoto = NoPhoto /\ shot = NoShot
    /\ isPoweredOn /\ stream /\ Trim(room) # ""
    /\ ~isReloading /\ ~isCapturing /\ ~isRecording

\* the last n elements of a sequence
LastN(rs, n) == IF Len(rs) <= n THEN rs ELSE SubSeq(rs, Len(rs) - n + 1, Len(rs))

\* C11: the store a join fetch seeds holds the FetchLimit most recently
\* created cards of the room, oldest first, each of them settled.
C11_FetchSeedsMostRecent ==
    [][\A f \in fetches :
          lastOp' = "fetchDone" /\ fetches' = fetches \ {f}
            /\ ~Ignore(f.gen) /\ f.st = "data" /\ f.data = Query(f.room)
              => photos' = Mapped(LastN(SelectRoom(rows, f.room), FetchLimit))]_vars

\* the insert calls but for the i-th
Without(ks, i) == SubSeq(ks, 1, i - 1) \o SubSeq(ks, i + 1, Len(ks))

\* C12: when the insert of an authenticated Keep has failed, the continuation
\* of the Keep empties the pending slot, leaves the card store and the film
\* count as they were and raises exactly one failure notice.
C12_FailedInsertClearsSlot ==
    [][\A i \in 1..Len(keeps) :
          lastOp' = "keepResume" /\ keeps' = Without(keeps, i) /\ keeps[i].st = "error"
              => /\ pendingPhoto' = NoPhoto
                 /\ photos' = photos
                 /\ shotsLeft' = shotsLeft
                 /\ alerts' = alerts + 1]_vars

\* the only Keep so far has failed and its continuation has just run
C12_FailedKeepResumed ==
    /\ lastOp = "keepResume"
    /\ alerts = 1
    /\ keeps = <<>> /\ rows = <<>>
    /\ pendingPhoto = NoPhoto
    /\ shotsLeft = Capacity - 1

\* C13: a Keep made while signed out sends no insert request; it appends the
\* pending capture to the card store at the point it was dropped, with the
\* stack order maxZIndex + 1 and as developing, and empties the pending slot
\* in the same step.
C13_LocalKeep ==
    [][lastOp' = "keep" /\ user = NoUser /\ pendingPhoto # NoPhoto =>
          /\ keeps' = keeps /\ rows' = rows
          /\ Len(photos') = Len(photos) + 1
          /\ SubSeq(photos', 1, Len(photos)) = photos
          /\ photos'[Len(photos')].id = pendingPhoto.id
          /\ photos'[Len(photos')].dataUrl = pendingPhoto.dataUrl
          /\ <<photos'[Len(photos')].x, photos'[Len(photos')].y>> \in Dests
          /\ photos'[Len(photos')].zIndex = maxZIndex + 1
          /\ photos'[Len(photos')].isDeveloping
          /\ pendingPhoto' = NoPhoto]_vars

\* C14: once the pending slot holds a capture, it holds that capture until a
\* step of a Keep of that capture empties it.
C14_OnlyItsKeepEmptiesSlot ==
    [][pendingPhoto # NoPhoto
          /\ (pendingPhoto' = NoPhoto \/ pendingPhoto'.id # pendingPhoto.id)
          => lastOp' \in {"keep", "keepResume"} /\ lastArg' = pendingPhoto.id]_vars

\* C15: a capture request made while the slot is empty and the room key is
\* empty or white space only is rejected: the film count is not decremented,
\* no capture or recording is started, and the warning is set; a warning that
\* is set is eventually cleared by its timer
C15_InvalidRoomRejected ==
    /\ [][(lastOp' = "takePhoto" /\ pendingPhoto = NoPhoto /\ room \in {"", Blank})
             => (/\ shotsLeft' = shotsLeft
                 /\ shot' = shot
                 /\ isCapturing' = isCapturing
                 /\ isRecording' = isRecording
                 /\ warningMsg'
                 /\ warnTimers' = warnTimers + 1)]_vars
    /\ (warningMsg ~> ~warningMsg)

\* a request with a room key of white space, on a camera that was ready
C15_BlankRoomWarned ==
    /\ lastOp = "takePhoto" /\ room = Blank /\ warningMsg
    /\ isPoweredOn /\ stream /\ ~isReloading /\ ~isCapturing
    /\ shotsLeft = Capacity /\ pendingPhoto = NoPhoto /\ shot = NoShot

\* C16: the presence map never holds an entry keyed by the id of the local
\* user, and a cursor broadcast received from another user creates or replaces
\* only the entry keyed by its sender, leaving every other entry unchanged
C16_NoOwnCursor ==
    /\ [](user \notin DOMAIN cursors)
    /\ [][\A c \in casts :
             (lastOp' = "cursorEvent" /\ casts' = casts \ {c} /\ c.payload.userId # user)
             => (/\ DOMAIN cursors' = DOMAIN cursors \cup {c.payload.userId}
                 /\ \A u \in DOMAIN cursors \ {c.payload.userId} : cursors'[u] = cursors[u])]_vars

\* C17: a sweep removes exactly the entries whose last update is more than
\* 2 seconds old and keeps all others as they are; an entry is eventually
\* removed unless a broadcast of its sender is received again
C17_SweepRemovesStale ==
    /\ [][lastOp' = "sweep" =>
             /\ DOMAIN cursors' = {u \in DOMAIN cursors : now - cursors[u].lastUpdate <= 2000}
             /\ \A u \in DOMAIN cursors' : cursors'[u] = cursors[u]]_vars
    /\ \A u \in Peers :
          (u \in DOMAIN cursors)
             ~> (u \notin DOMAIN cursors \/ (lastOp = "cursorEvent" /\ lastArg = u))

\* a sweep has kept an entry updated exactly 2 seconds before
C17_SweptAtThreshold ==
    /\ lastOp = "sweep"
    /\ DOMAIN cursors = {"u2"}
    /\ now - cursors["u2"].lastUpdate = 2000

\* C18: a capture request that starts a photo capture takes exactly one from
\* the film count; one that starts a recording, and one that starts neither,
\* leave the film count as it was
C18_FilmCountPerCapture ==
    [][lastOp' = "takePhoto" =>
          /\ ((isCapturing' /\ ~isCapturing) => shotsLeft' = shotsLeft - 1)
          /\ ((isRecording' /\ ~isRecording) => shotsLeft' = shotsLeft)
          /\ ((isCapturing' = isCapturing /\ isRecording' = isRecording)
                 => shotsLeft' = shotsLeft)]_vars

\* a recording has started on a roll from which one photo was taken
C18_VideoAfterPhoto ==
    /\ lastOp = "takePhoto"
    /\ isRecording /\ shot = [kind |-> "video", ai |-> isAiEnabled]
    /\ shotsLeft = Capacity - 1

\* C19: a reload request made while the governor is reloading changes nothing
\* and starts no second timer; a reload that has started completes; a capture
\* request made while the governor is reloading starts no capture
C19_ReloadIdempotent ==
    /\ [][(lastOp' = "reload" /\ isReloading) =>
             UNCHANGED <<authV, camV, setV, capV, filmV, warnV, slotV, storeV, zV, syncV,
                         dbV, presV>>]_vars
    /\ [](reloadTimers <= 1)
    /\ (isReloading ~> ~isReloading)
    /\ [][(lastOp' = "takePhoto" /\ isReloading) =>
             UNCHANGED <<isCapturing, isRecording, shot, shotsLeft>>]_vars

\* handleReload was called with the timer of a reload pending, on a camera
\* that is on, and has returned at its guard
C19_SecondReloadIgnored ==
    /\ lastOp = "reload" /\ lastArg = 1
    /\ isReloading /\ reloadTimers = 1
    /\ isPoweredOn /\ stream /\ Trim(room) # "" /\ pendingPhoto = NoPhoto

C21_ResetOnlyStore ==
    [][lastOp' = "reset" =>
          /\ photos' = <<>>
          /\ UNCHANGED <<rows, keeps, pendingPhoto, captionCalls, shotsLeft, isReloading,
                         maxZIndex, cursors, effect, subscribed, events, fetches>>
          /\ UNCHANGED <<authV, camV, setV, capV, warnV, settleTimers, casts, now, alerts>>]_vars

\* Reset was pressed with a row in the table, a capture in the slot, a pointer
\* in the presence map and the channel joined
C21_ResetWithEverything ==
    /\ lastOp = "reset"
    /\ photos = <<>>
    /\ rows # <<>> /\ pendingPhoto # NoPhoto /\ shotsLeft < Capacity
    /\ DOMAIN cursors # {} /\ subscribed /\ effect # 0

\* C22: a generateCaption call is never rejected; in a build without a
\* credential it resolves to one fixed string without calling the service,
\* and when the service fails it resolves to a second, different fixed string
C22_CaptionNeverFails ==
    gemini.last # NoResult =>
       /\ gemini.last.status = "resolved"
       /\ (gemini.key = ""
             => gemini.last.value = "Memories captured in time..." /\ ~gemini.last.remote)
       /\ (gemini.key # "" /\ gemini.last.reply.kind = "throws"
             => /\ gemini.last.value = "Captured moment #84"
                /\ gemini.last.value # NoKeyFallback)
       /\ lastOp # "captionRejected"

\* the service failed and the pending card carries the second fallback string
C22_FailureAbsorbed ==
    /\ lastOp = "caption"
    /\ gemini.key # "" /\ gemini.last.reply.kind = "throws"
    /\ pendingPhoto # NoPhoto /\ pendingPhoto.caption = FailedFallback

\* C23: maxZ never decreases: after every step, a join fetch that completes
\* after local focus operations included, maxZ is at least what it was
C23_MaxZNeverDecreases == [][maxZIndex' >= maxZIndex]_vars

\* C24: no two cards of the store have the same stack order, also when the
\* cards were kept by other clients of the room
C24_DistinctStackOrders ==
    \A i, j \in 1..Len(photos) : i # j => photos[i].zIndex # photos[j].zIndex

\* C25: right after bringToFront on a card of the store, that card has the
\* stack order maxZ + 1 and every other card of the store has a lower one
C25_FocusedIsTopmost ==
    [][lastOp' = "bringToFront" =>
          \E i \in 1..Len(photos) :
             /\ photos' = MapById(photos, photos[i].id, "zIndex", maxZIndex + 1)
             /\ \A j \in 1..Len(photos') : j # i => photos'[j].zIndex < photos'[i].zIndex]_vars

\* C26: a join fetch that returns at least one card sets maxZ to the highest
\* fetched stack order plus 1; one that returns no card, or fails, leaves maxZ
\* as it was
C26_FetchSetsMaxZ ==
    [][\A f \in fetches :
          (lastOp' = "fetchDone" /\ fetches' = fetches \ {f} /\ ~Ignore(f.gen))
            => IF f.st = "data" /\ Len(f.data) > 0
                  THEN /\ \E i \in 1..Len(f.data) : maxZIndex' = f.data[i].z_index + 1
                       /\ \A i \in 1..Len(f.data) : f.data[i].z_index < maxZIndex'
                  ELSE maxZIndex' = maxZIndex]_vars

\* a fetch has returned a card below and a card above the counter of this client
C26_FetchedAboveAndBelow ==
    /\ lastOp = "fetchDone"
    /\ Len(photos) = 2
    /\ {photos[i].zIndex : i \in 1..Len(photos)} = {29, 32}
    /\ maxZIndex = 33

\* C27: the capture in the slot leaves Ejecting only when the timer of its
\* ejection fires: while it is Ejecting no other step changes its state, keeps
\* it or removes it, and every capture that is Ejecting eventually awaits
\* placement
C27_EjectingEndsByTimer ==
    /\ [][(pendingPhoto # NoPhoto /\ pendingPhoto.isEjecting /\ lastOp' # "ejectTimer")
             => (/\ pendingPhoto' # NoPhoto
                 /\ pendingPhoto'.id = pendingPhoto.id
                 /\ pendingPhoto'.isEjecting
                 /\ (pendingPhoto.id \in Ids(photos') => pendingPhoto.id \in Ids(photos))
                 /\ (Len(keeps') > Len(keeps) => keeps'[Len(keeps')].id # pendingPhoto.id))]_vars
    /\ ((pendingPhoto # NoPhoto /\ pendingPhoto.isEjecting)
           ~> (pendingPhoto # NoPhoto /\ ~pendingPhoto.isEjecting))

\* card id is in the store and is Developing / Settled
IsDeveloping(id) == \E i \in 1..Len(photos) : photos[i].id = id /\ photos[i].isDeveloping

IsSettled(id) == \E i \in 1..Len(photos) : photos[i].id = id /\ ~photos[i].isDeveloping

\* C28: every card that is in the store as Developing is eventually Settled
\* or out of the store, and no step turns a card that is Settled into a
\* Developing one
C28_DevelopingSettles ==
    /\ \A id \in CardIds : IsDeveloping(id) ~> ~IsDeveloping(id)
    /\ [][\A id \in CardIds : IsSettled(id) => ~IsDeveloping(id)']_vars

\* the timer of a card kept signed out has fired and the card is Settled
C28_KeptCardSettled ==
    /\ lastOp = "settleTimer"
    /\ \E id \in 1..MaxIds : IsSettled(id)

\* C29: the result of a caption request changes nothing but the caption of the
\* capture it was requested for: a slot that is empty or holds another capture
\* stays as it is, and so does every card of the store with another id
C29_CaptionByIdentity ==
    [][lastOp' = "caption"
          => /\ IF pendingPhoto # NoPhoto /\ pendingPhoto.id = lastArg'
                   THEN [pendingPhoto' EXCEPT !.caption = pendingPhoto.caption] = pendingPhoto
                   ELSE pendingPhoto' = pendingPhoto
             /\ Len(photos') = Len(photos)
             /\ \A i \in 1..Len(photos) : photos[i].id # lastArg' => photos'[i] = photos[i]]_vars

\* the result for a capture that has been kept arrives while the slot holds the
\* next capture, which has no caption yet
C29_LateResultOtherInSlot ==
    /\ lastOp = "caption"
    /\ lastArg \in Ids(photos)
    /\ pendingPhoto # NoPhoto
    /\ pendingPhoto.id # lastArg
    /\ pendingPhoto.id \in captionCalls

\* C30: with AI captions on, the insert request of every signed-in Keep of a
\* photo carries the caption generated for that photo
C30_InsertCarriesCaption ==
    [][(/\ lastOp' = "keep"
        /\ Len(keeps') = Len(keeps) + 1
        /\ isAiEnabled
        /\ keeps'[Len(keeps')].data_url.media = "photo")
          => keeps'[Len(keeps')].caption = AiCaption]_vars

\* C31: the row an authenticated Keep writes, and the card the change feed
\* brings back for it, have the id of the capture that was kept (the capture a
\* data URL was taken from is DataUrl's n; rows of other clients have n = 0)
C31_EchoKeepsCaptureId ==
    /\ \A i \in 1..Len(rows) : rows[i].data_url.n # 0 => rows[i].id = rows[i].data_url.n
    /\ \A i \in 1..Len(photos) : photos[i].dataUrl.n # 0 => photos[i].id = photos[i].dataUrl.n

\* C32: the x and y of the insert request of a Keep lie in [0, 1], wherever
\* the drag ended
C32_InsertNormalized ==
    [][(lastOp' = "keep" /\ Len(keeps') = Len(keeps) + 1)
          => LET c == keeps'[Len(keeps')]
             IN /\ 0 <= c.x.num /\ c.x.num <= c.x.den
                /\ 0 <= c.y.num /\ c.y.num <= c.y.den]_vars

\* C33: a card kept at (x, y) by this client (the row holds x / innerWidth and
\* y / innerHeight) is placed at (x, y) when this client reads it back, and
\* at the same fraction of the width and height of any other viewport
C33_PlacementRoundTrip ==
    /\ \A i \in 1..Len(photos), j \in 1..Len(rows) :
          (photos[i].id = rows[j].id /\ rows[j].x.den = InnerWidth /\ rows[j].y.den = InnerHeight)
             => photos[i].x = rows[j].x.num /\ photos[i].y = rows[j].y.num
    /\ \A j \in 1..Len(rows), v \in Viewports :
          (rows[j].x.den = InnerWidth /\ rows[j].y.den = InnerHeight)
             => /\ Placement(rows[j], v[1], v[2])[1] * InnerWidth = rows[j].x.num * v[1]
                /\ Placement(rows[j], v[1], v[2])[2] * InnerHeight = rows[j].y.num * v[2]

\* C34: a pointer broadcast that was received on the channel of an effect run
\* which a room-key change or a sign-out has ended adds or updates no entry
\* of the presence map
C34_NoStaleCursor ==
    [][lastOp' = "cursorEvent"
          => \A c \in casts \ casts' : c.gen # effect => cursors' = cursors]_vars

\* C35: the step of a sign-out leaves no subscription, an empty card store and
\* an empty presence map, and no insert event changes the store while nobody
\* is signed in
C35_SignOutDiscards ==
    /\ [][lastOp' = "signOut"
             => /\ effect' = 0 /\ ~subscribed'
                /\ photos' = <<>>
                /\ cursors' = NoCursors]_vars
    /\ [][(lastOp' = "insertEvent" /\ user = NoUser) => photos' = photos]_vars

\* C36: a CURSOR broadcast is sent only while a user is signed in and the
\* channel of the live effect run exists, and at least ThrottleLimit ms after
\* the previous broadcast of this client
C36_BroadcastThrottled ==
    [][(lastOp' = "mouseMove" /\ lastArg' = 1)
          => /\ user # NoUser
             /\ effect # 0
             /\ sinceCast >= ThrottleLimit]_vars

\* C37: the card store holds at most one entry per id
C37_OneEntryPerId ==
    \A i, j \in 1..Len(photos) : photos[i].id = photos[j].id => i = j

\* C38: the film count is a whole number from 0 to 8
C38_FilmCountInRange == shotsLeft \in 0..Capacity

\* the roll was used up and the reload timer has just filled it again
C38_ReloadedAfterEmpty ==
    /\ lastOp = "reloadTimer"
    /\ shotsLeft = Capacity
    /\ Len(photos) > 0

\* C39: a capture flag that is set is eventually cleared: after an accepted
\* photo isCapturing becomes false again, after an accepted video isRecording
C39_FlagsCleared ==
    /\ isCapturing ~> ~isCapturing
    /\ isRecording ~> ~isRecording

\* C40: the step of a room-key change, of a sign-in and of a sign-out leaves
\* the card store empty, whoever is or was signed in
C40_StoreEmptiedOnChange ==
    [][lastOp' \in {"setRoom", "signIn", "signOut"} => photos' = <<>>]_vars

====
